---- MODULE Spec2Model ----
(***************************************************************************)
(* A model of sysunit: the INI-dialect parser/serializer                   *)
(* (MultiConfigParser), the unit document (UnitConfig) and the unit facade *)
(* (SystemUnit) with its batch expansion.                                  *)
(*                                                                         *)
(* A Python str is modelled as a sequence of one-character strings, so     *)
(* that stripping, splitting, joining, prefix tests and str.format are     *)
(* computed character by character.  A Python list of str is a sequence of *)
(* such sequences.                                                         *)
(***************************************************************************)
EXTENDS Naturals, Sequences, FiniteSets, TLC

\* Bounds of the model: the number of document-changing calls made on one
\* unit, the length of the lists drawn for a multi-valued option, and the
\* length of the sequence drawn for a batch variable.
MaxOps == 3

MaxLen == 3

MaxN == 2
\* the most lines of a text that is parsed
MaxLines == 4
\* the most tokens of a raw unit name
MaxTokens == 5

NL == "\n"
TAB == "\t"

\* str.isspace for the characters of the model's alphabet
isspace(c) == c \in {" ", TAB, NL}

RECURSIVE lstrip(_)
lstrip(s) == IF s # <<>> /\ isspace(Head(s)) THEN lstrip(Tail(s)) ELSE s

RECURSIVE rstrip(_)
rstrip(s) ==
    IF s # <<>> /\ isspace(s[Len(s)]) THEN rstrip(SubSeq(s, 1, Len(s) - 1)) ELSE s

strip(s) == rstrip(lstrip(s))

startswith(s, p) == Len(s) >= Len(p) /\ SubSeq(s, 1, Len(p)) = p

endswith(s, p) == Len(s) >= Len(p) /\ SubSeq(s, Len(s) - Len(p) + 1, Len(s)) = p

\* str.find for a single character: the first index (1-based), 0 when absent
find(s, c) ==
    IF \E i \in 1..Len(s) : s[i] = c
    THEN CHOOSE i \in 1..Len(s) : s[i] = c /\ \A j \in 1..(i - 1) : s[j] # c
    ELSE 0

\* str.rfind for a single character: the last index (1-based), 0 when absent
rfind(s, c) ==
    IF \E i \in 1..Len(s) : s[i] = c
    THEN CHOOSE i \in 1..Len(s) : s[i] = c /\ \A j \in (i + 1)..Len(s) : s[j] # c
    ELSE 0

\* sep.join(parts) for a list of str
RECURSIVE join(_, _)
join(parts, sep) ==
    IF parts = <<>> THEN <<>>
    ELSE IF Len(parts) = 1 THEN parts[1]
    ELSE parts[1] \o sep \o join(Tail(parts), sep)

\* iterating a str yields its characters, each a str of length one
chars(s) == [i \in 1..Len(s) |-> <<s[i]>>]

\* s.replace(c, by) for a single character c
RECURSIVE replace(_, _, _)
replace(s, c, by) ==
    IF s = <<>> THEN <<>>
    ELSE (IF Head(s) = c THEN by ELSE <<Head(s)>>) \o replace(Tail(s), c, by)

\* The lines a text file yields when iterated (line ends dropped: every use
\* of a line strips it or looks for its first non-space character).
RECURSIVE readlines(_)
readlines(text) ==
    IF text = <<>> THEN <<>>
    ELSE LET i == find(text, NL) IN
         IF i = 0 THEN <<text>>
         ELSE <<SubSeq(text, 1, i - 1)>> \o readlines(SubSeq(text, i + 1, Len(text)))

(***************************************************************************)
(* Option values.  A value is a str (list = FALSE, v = <<the string>>) or  *)
(* a list of str (list = TRUE, v = the elements).                          *)
(***************************************************************************)
Scalar(s) == [list |-> FALSE, v |-> <<s>>]

List(l) == [list |-> TRUE, v |-> l]

\* repr(str) for strings without quotes or backslashes
reprstr(s) == <<"'">> \o replace(replace(s, NL, <<"\\", "n">>), TAB, <<"\\", "t">>) \o <<"'">>

\* str(value): a str is itself, a list prints as ['a', 'b']
str(val) ==
    IF val.list
    THEN <<"[">> \o join([i \in 1..Len(val.v) |-> reprstr(val.v[i])], <<",", " ">>) \o <<"]">>
    ELSE val.v[1]

\* the elements a for loop over the value visits
iterate(val) == IF val.list THEN val.v ELSE chars(val.v[1])

(***************************************************************************)
(* The document: RawConfigParser._sections (an ordered dict of ordered     *)
(* dicts), the _internal attribute of each section's proxy, and            *)
(* MultiConfigParser._multioptions.  A list is an object: shared holds the *)
(* sets of (section, option) pairs whose value is one and the same list.   *)
(***************************************************************************)
NoErr == "none"

sections(doc) == [i \in 1..Len(doc.sections) |-> doc.sections[i].name]

has_section(doc, name) == \E i \in 1..Len(doc.sections) : doc.sections[i].name = name

sectidx(doc, name) == CHOOSE i \in 1..Len(doc.sections) : doc.sections[i].name = name

items(doc, name) == doc.sections[sectidx(doc, name)].items

has_option(its, key) == \E i \in 1..Len(its) : its[i].key = key

optidx(its, key) == CHOOSE i \in 1..Len(its) : its[i].key = key

get(doc, name, key) == LET its == items(doc, name) IN its[optidx(its, key)].val

\* dict[key] = val: an existing key keeps its place, a new key goes last
setitem(its, key, val) ==
    IF has_option(its, key)
    THEN [its EXCEPT ![optidx(its, key)].val = val]
    ELSE Append(its, [key |-> key, val |-> val])

EmptyDoc == [sections |-> <<>>, multioptions |-> {}, shared |-> {}]

\* RawConfigParser.add_section: DuplicateSectionError if the section exists,
\* else a new empty section (and a new proxy, without _internal) goes last
add_section(doc, name) ==
    IF has_section(doc, name)
    THEN [doc |-> doc, err |-> "DuplicateSectionError"]
    ELSE [doc |-> [doc EXCEPT !.sections =
                      Append(@, [name |-> name, internal |-> FALSE, items |-> <<>>])],
          err |-> NoErr]

\* the pairs that hold the list object the pair p holds
sharing(doc, p) ==
    IF \E c \in doc.shared : p \in c THEN CHOOSE c \in doc.shared : p \in c ELSE {p}

\* the pairs ps hold their list no longer
unshare(doc, ps) ==
    [doc EXCEPT !.shared = {c \ ps : c \in {d \in @ : Cardinality(d \ ps) > 1}}]

\* the pair p holds the list object the pair q holds
share(doc, p, q) ==
    [doc EXCEPT !.shared = {c \in unshare(doc, {p}).shared : q \notin c}
                           \cup {sharing(unshare(doc, {p}), q) \cup {p}}]

\* RawConfigParser.remove_section: the section and its proxy are deleted
remove_section(doc, name) ==
    unshare([doc EXCEPT !.sections = SelectSeq(@, LAMBDA s : s.name # name)],
            {p \in UNION doc.shared : p[1] = name})

\* MultiConfigParser.set of the object value; the pair is marked before
\* RawConfigParser.set looks the section up (NoSectionError)
setobject(doc, section, option, value, multioption) ==
    LET val == IF multioption /\ ~value.list THEN List(value.v) ELSE value
        marked == IF multioption
                  THEN [doc EXCEPT !.multioptions = @ \cup {<<section, option>>}]
                  ELSE doc
    IN IF ~has_section(doc, section)
       THEN [doc |-> marked, err |-> "NoSectionError"]
       ELSE [doc |-> [marked EXCEPT !.sections[sectidx(doc, section)].items =
                         setitem(@, option, val)],
             err |-> NoErr]

\* MultiConfigParser.set of a value no option holds: a str, or a list that
\* was made for the call
set(doc, section, option, value, multioption) ==
    LET r == setobject(doc, section, option, value, multioption)
    IN IF r.err # NoErr THEN r
       ELSE [doc |-> unshare(r.doc, {<<section, option>>}), err |-> NoErr]

\* list.append(value) on the list the pair p holds: every pair that holds
\* this list holds the longer list
list_append(doc, p, value) ==
    [doc EXCEPT !.sections = [i \in 1..Len(@) |->
        [@[i] EXCEPT !.items = [j \in 1..Len(@) |->
            IF <<doc.sections[i].name, @[j].key>> \in sharing(doc, p)
            THEN [@[j] EXCEPT !.val = List(Append(@.v, value))]
            ELSE @[j]]]]]

\* MultiConfigParser.append: the list the option holds is appended to in
\* place and set again, a str is put into a new list
append(doc, section, option, value) ==
    IF ~has_section(doc, section)
    THEN [doc |-> doc, err |-> "NoSectionError"]
    ELSE IF has_option(items(doc, section), option)
    THEN LET old == get(doc, section, option)
         IN IF old.list
            THEN setobject(list_append(doc, <<section, option>>, value), section, option,
                           List(Append(old.v, value)), TRUE)
            ELSE set(doc, section, option, List(<<old.v[1], value>>), TRUE)
    ELSE set(doc, section, option, Scalar(value), TRUE)

set_internal(doc, section) ==
    [doc EXCEPT !.sections[sectidx(doc, section)].internal = TRUE]

set_external(doc, section) ==
    [doc EXCEPT !.sections[sectidx(doc, section)].internal = FALSE]

is_internal(doc, section) == doc.sections[sectidx(doc, section)].internal

(***************************************************************************)
(* Serializer: RawConfigParser.write with space_around_delimiters=False    *)
(* calls _write_section for every section, with delimiter "=".             *)
(***************************************************************************)
write_option(doc, section_name, item) ==
    LET value == IF <<section_name, item.key>> \in doc.multioptions
                 THEN iterate(item.val)
                 ELSE <<str(item.val)>>
    IN join([i \in 1..Len(value) |->
                item.key \o <<"=">> \o replace(value[i], NL, <<NL, TAB>>) \o <<NL>>],
            <<>>)

write_section(doc, section) ==
    <<"[">> \o section.name \o <<"]", NL>>
    \o join([i \in 1..Len(section.items) |->
                write_option(doc, section.name, section.items[i])], <<>>)
    \o <<NL>>

write(doc) ==
    join([i \in 1..Len(doc.sections) |-> write_section(doc, doc.sections[i])], <<>>)

(***************************************************************************)
(* Parser: MultiConfigParser._read for a UnitConfig (no default section,   *)
(* not strict, optionxform = str, delimiters "=" and ":", comment prefixes *)
(* "#" and ";", no inline comment prefixes, empty lines kept in values).   *)
(***************************************************************************)
comment_prefixes == {"#", ";"}

delimiters == {"=", ":"}

\* cursect[optname].append(s): a str has no append
appendvalue(st, s) ==
    LET i == sectidx(st.doc, st.cursect)
        j == optidx(st.doc.sections[i].items, st.optname)
        old == st.doc.sections[i].items[j].val
    IN IF ~old.list
       THEN [st EXCEPT !.err = "AttributeError"]
       ELSE [st EXCEPT !.doc.sections[i].items[j].val = List(Append(old.v, s))]

\* SECTCRE  \[(?P<header>.+)\]  matched at the start of the stripped line
SECTCRE(value) == value[1] = "[" /\ rfind(value, "]") >= 3

header(value) == SubSeq(value, 2, rfind(value, "]") - 1)

\* the first delimiter of the line, 0 when there is none
videlim(value) ==
    IF \E i \in 1..Len(value) : value[i] \in delimiters
    THEN CHOOSE i \in 1..Len(value) :
            value[i] \in delimiters /\ \A j \in 1..(i - 1) : value[j] \notin delimiters
    ELSE 0

\* OPTCRE  (?P<option>.*?)\s*(?:(?P<vi>=|:)\s*(?P<value>.*))$
OPTCRE(value) == videlim(value) # 0

readheader(st, value) ==
    LET sectname == header(value)
        doc1 == IF has_section(st.doc, sectname) THEN st.doc
                ELSE add_section(st.doc, sectname).doc
    IN [st EXCEPT !.doc = doc1, !.cursect = sectname, !.insect = TRUE,
                  !.optname = <<>>]

readoption(st, value, lineno) ==
    LET d == videlim(value)
        optname == rstrip(SubSeq(value, 1, d - 1))
        optval == strip(SubSeq(value, d + 1, Len(value)))
        st1 == [st EXCEPT !.optname = optname,
                          !.e = IF optname = <<>> THEN Append(@, lineno) ELSE @]
        i == sectidx(st.doc, st.cursect)
    IN IF has_option(st.doc.sections[i].items, optname)
       THEN appendvalue([st1 EXCEPT !.doc.multioptions =
                                       @ \cup {<<st.cursect, optname>>}],
                        optval)
       ELSE [st1 EXCEPT !.doc.sections[i].items =
                           Append(@, [key |-> optname, val |-> List(<<optval>>)])]

\* one iteration of the loop over the lines of the file; the module never
\* imports MissingSectionHeaderError, so raising it raises NameError
readline(st, line, lineno) ==
    LET stripped == strip(line)
        comment == stripped # <<>> /\ stripped[1] \in comment_prefixes
        value == IF comment THEN <<>> ELSE stripped
        cur_indent_level == Len(line) - Len(lstrip(line))
    IN IF value = <<>>
       THEN IF ~comment /\ st.insect /\ st.optname # <<>>
            THEN appendvalue(st, <<>>)
            ELSE st
       ELSE IF st.insect /\ st.optname # <<>> /\ cur_indent_level > st.indent_level
       THEN appendvalue(st, value)
       ELSE LET st1 == [st EXCEPT !.indent_level = cur_indent_level] IN
            IF SECTCRE(value) THEN readheader(st1, value)
            ELSE IF ~st.insect THEN [st1 EXCEPT !.err = "NameError"]
            ELSE IF OPTCRE(value) THEN readoption(st1, value, lineno)
            ELSE [st1 EXCEPT !.e = Append(@, lineno)]

\* a loop that stops at the first line collected for the ParsingError
RECURSIVE readloop_stop(_, _, _)
readloop_stop(st, lines, lineno) ==
    IF lineno > Len(lines) \/ st.err # NoErr \/ st.e # <<>> THEN st
    ELSE readloop_stop(readline(st, lines[lineno], lineno), lines, lineno + 1)

\* the loop: an exception raised in an iteration ends it
RECURSIVE readloop(_, _, _)
readloop(st, lines, lineno) ==
    IF lineno > Len(lines) \/ st.err # NoErr THEN st
    ELSE readloop(readline(st, lines[lineno], lineno), lines, lineno + 1)

\* _join_multiline_values: every value that is not marked multi-valued is
\* newline-joined (a str is Iterable too: its characters are joined)
join_multiline_values(doc) ==
    [doc EXCEPT !.sections = [i \in 1..Len(@) |->
        [@[i] EXCEPT !.items = [j \in 1..Len(@) |->
            IF <<doc.sections[i].name, @[j].key>> \in doc.multioptions
            THEN @[j]
            ELSE [@[j] EXCEPT !.val = Scalar(rstrip(join(iterate(@), <<NL>>)))]]]]]

\* _read: the document after the call, the exception raised (NoErr when it
\* returns) and the numbers of the lines collected for the ParsingError
read(doc, text) ==
    LET st == readloop([doc |-> doc, cursect |-> <<>>, insect |-> FALSE,
                        optname |-> <<>>, indent_level |-> 0, err |-> NoErr,
                        e |-> <<>>],
                       readlines(text), 1)
    IN IF st.err # NoErr
       THEN [doc |-> st.doc, err |-> st.err, e |-> st.e]
       ELSE [doc |-> join_multiline_values(st.doc),
             err |-> IF st.e # <<>> THEN "ParsingError" ELSE NoErr,
             e |-> st.e]

(***************************************************************************)
(* UnitConfig.                                                             *)
(***************************************************************************)
Unit == <<"U", "n", "i", "t">>

Service == <<"S", "e", "r", "v", "i", "c", "e">>

\* the extension 'service'
Service_ext == <<"s", "e", "r", "v", "i", "c", "e">>

\* UnitConfig(): 'Unit' is added when absent
UnitConfig == add_section(EmptyDoc, Unit).doc

\* ServiceConfig(): 'Unit' then 'Service' are added when absent
ServiceConfig == add_section(UnitConfig, Service).doc

\* the extensions 'target', 'timer' and 'path'
Target_ext == <<"t", "a", "r", "g", "e", "t">>

Timer_ext == <<"t", "i", "m", "e", "r">>

Path_ext == <<"p", "a", "t", "h">>

\* TargetConfig(): a UnitConfig with the extension 'target'
TargetConfig == UnitConfig

\* TimerConfig(): 'Unit' then 'Timer' are added when absent
TimerConfig == add_section(UnitConfig, <<"T", "i", "m", "e", "r">>).doc

\* PathConfig(): 'Unit' then 'Path' are added when absent
PathConfig == add_section(UnitConfig, <<"P", "a", "t", "h">>).doc

\* u.set(to, item[0], item[1]) of an item of the section from: a list is
\* the object the item holds
copyitem(doc, from, item, to) ==
    IF item.val.list
    THEN share(setobject(doc, to, item.key, item.val, FALSE).doc,
               <<to, item.key>>, <<from, item.key>>)
    ELSE set(doc, to, item.key, item.val, FALSE).doc

\* for item in u.items(section): u.set(to, item[0], item[1])
RECURSIVE copyitems(_, _, _, _, _)
copyitems(doc, from, its, to, i) ==
    IF i > Len(its) THEN doc
    ELSE copyitems(copyitem(doc, from, its[i], to), from, its, to, i + 1)

\* _externalise_internals.  copy.copy(self) is a shallow copy: external_u
\* holds the same _sections, _proxies and _multioptions objects as self, so
\* the loop works on the receiver's own document, which is what is returned.
\* The loop runs over the list of section names taken before it starts.
RECURSIVE externalise_loop(_, _, _)
externalise_loop(doc, names, i) ==
    IF i > Len(names) THEN [doc |-> doc, err |-> NoErr]
    ELSE IF ~is_internal(doc, names[i]) THEN externalise_loop(doc, names, i + 1)
    ELSE LET ext_sect == <<"x", "-">> \o names[i]
             added == add_section(doc, ext_sect)
         IN IF added.err # NoErr THEN added
            ELSE externalise_loop(
                    remove_section(
                        copyitems(added.doc, names[i], items(doc, names[i]), ext_sect, 1),
                        names[i]),
                    names, i + 1)

externalise_internals(doc) == externalise_loop(doc, sections(doc), 1)

\* _internalise_internals, on the receiver's own document for the same reason
RECURSIVE internalise_loop(_, _, _)
internalise_loop(doc, names, i) ==
    IF i > Len(names) THEN [doc |-> doc, err |-> NoErr]
    ELSE IF ~startswith(names[i], <<"x", "-">>) THEN internalise_loop(doc, names, i + 1)
    ELSE LET int_sect == SubSeq(names[i], 3, Len(names[i]))
             added == add_section(doc, int_sect)
         IN IF added.err # NoErr THEN added
            ELSE internalise_loop(
                    set_internal(
                        remove_section(
                            copyitems(added.doc, names[i], items(doc, names[i]), int_sect, 1),
                            names[i]),
                        int_sect),
                    names, i + 1)

internalise_internals(doc) == internalise_loop(doc, sections(doc), 1)

\* The files of the unit directory: a function from the names of the files
\* that exist to their text.
exists(fs, fname) == fname \in DOMAIN fs

writefile(fs, fname, text) ==
    [n \in DOMAIN fs \cup {fname} |-> IF n = fname THEN text ELSE fs[n]]

\* write_config: the receiver's document after the call, the files after
\* the call and the exception raised
write_config(doc, extension, fs, name) ==
    IF name = <<>> THEN [doc |-> doc, files |-> fs, err |-> "ValueError"]
    ELSE LET fname == IF extension # <<>> /\ ~endswith(name, extension)
                      THEN name \o <<".">> \o extension ELSE name
             export_u == externalise_internals(doc)
         IN IF export_u.err # NoErr
            THEN [doc |-> export_u.doc, files |-> fs, err |-> export_u.err]
            ELSE [doc |-> export_u.doc,
                  files |-> writefile(fs, fname, write(export_u.doc)),
                  err |-> NoErr]

\* read_config: RawConfigParser.read skips a file it cannot open and reads
\* an existing one into the receiver with _read; "self = ..." rebinds a
\* local name only, but _internalise_internals has worked on the receiver.
read_config(doc, fs, name) ==
    LET parsed == IF exists(fs, name) THEN read(doc, fs[name])
                  ELSE [doc |-> doc, err |-> NoErr, e |-> <<>>]
    IN IF parsed.err # NoErr THEN [doc |-> parsed.doc, err |-> parsed.err]
       ELSE internalise_internals(parsed.doc)

\* pop_section(name): the items are put into a set (NoSectionError without
\* the section, TypeError for an item with a list, which cannot be hashed),
\* then the section is removed
pop_section(doc, name) ==
    IF ~has_section(doc, name) THEN [doc |-> doc, err |-> "NoSectionError"]
    ELSE IF \E i \in 1..Len(items(doc, name)) : items(doc, name)[i].val.list
    THEN [doc |-> doc, err |-> "TypeError"]
    ELSE [doc |-> remove_section(doc, name), err |-> NoErr]

\* update_internal_section(name, options); options is the sequence of the
\* keyword arguments, each value already a str
RECURSIVE updateitems(_, _, _, _)
updateitems(doc, name, options, i) ==
    IF i > Len(options) THEN doc
    ELSE updateitems(set(doc, name, options[i].key, Scalar(options[i].val), FALSE).doc,
                     name, options, i + 1)

update_internal_section(doc, name, options) ==
    LET nm == IF startswith(name, <<"x", "-">>) THEN SubSeq(name, 3, Len(name)) ELSE name
        doc1 == IF has_section(doc, nm) THEN doc ELSE add_section(doc, nm).doc
    IN updateitems(set_internal(doc1, nm), nm, options, 1)

(***************************************************************************)
(* str.format with keyword arguments.  variables is the sequence of the    *)
(* keyword arguments [k |-> name, v |-> value]; the result is the formatted *)
(* string and the exception raised.  "{{" and "}}" are the escapes; a field *)
(* is the text between "{" and the next "}": an empty or numeric field is a *)
(* positional argument (there is none: IndexError), any other is looked up *)
(* in variables (KeyError when absent).                                    *)
(***************************************************************************)
digits == {"0", "1", "2", "3", "4", "5", "6", "7", "8", "9"}

haskey(variables, field) == \E i \in 1..Len(variables) : variables[i].k = field

lookup(variables, field) ==
    variables[CHOOSE i \in 1..Len(variables) : variables[i].k = field].v

RECURSIVE format(_, _)
format(s, variables) ==
    IF s = <<>> THEN [s |-> <<>>, err |-> NoErr]
    ELSE IF Head(s) \in {"{", "}"} /\ Len(s) >= 2 /\ s[2] = Head(s)
    THEN LET rest == format(SubSeq(s, 3, Len(s)), variables)
         IN [rest EXCEPT !.s = <<Head(s)>> \o @]
    ELSE IF Head(s) = "}" THEN [s |-> <<>>, err |-> "ValueError"]
    ELSE IF Head(s) = "{"
    THEN LET c == find(s, "}")
             field == SubSeq(s, 2, c - 1)
         IN IF c = 0 \/ \E i \in 1..Len(field) : field[i] = "{"
            THEN [s |-> <<>>, err |-> "ValueError"]
            ELSE IF \A i \in 1..Len(field) : field[i] \in digits
            THEN [s |-> <<>>, err |-> "IndexError"]
            ELSE IF ~haskey(variables, field)
            THEN [s |-> <<>>, err |-> "KeyError"]
            ELSE LET rest == format(SubSeq(s, c + 1, Len(s)), variables)
                 IN [rest EXCEPT !.s = lookup(variables, field) \o @]
    ELSE LET rest == format(Tail(s), variables)
         IN [rest EXCEPT !.s = <<Head(s)>> \o @]

\* the first exception of a sequence of results
firsterr(rs) ==
    IF \E i \in 1..Len(rs) : rs[i].err # NoErr
    THEN rs[CHOOSE i \in 1..Len(rs) :
                rs[i].err # NoErr /\ \A j \in 1..(i - 1) : rs[j].err = NoErr].err
    ELSE NoErr

\* the formatted value of one option of UnitConfig.formatted: a value marked
\* multi-valued is formatted element by element; an unmarked one as a whole,
\* unless it has no format method (a list), and then element by element
formatall(parts, variables) == [i \in 1..Len(parts) |-> format(parts[i], variables)]

formattedlist(rs) == [val |-> List([i \in 1..Len(rs) |-> rs[i].s]), err |-> firsterr(rs)]

formattedstr(r) == [val |-> Scalar(r.s), err |-> r.err]

formattedvalue(val, multiopt, variables) ==
    IF multiopt \/ val.list
    THEN formattedlist(formatall(iterate(val), variables))
    ELSE formattedstr(format(val.v[1], variables))

\* UnitConfig.formatted(new_config, variables) on the document self: the
\* formatted new_config and the first exception raised
formattedvalues(self, new_config, variables) ==
    [i \in 1..Len(new_config.sections) |->
        [j \in 1..Len(new_config.sections[i].items) |->
            formattedvalue(new_config.sections[i].items[j].val,
                           <<new_config.sections[i].name,
                             new_config.sections[i].items[j].key>> \in self.multioptions,
                           variables)]]

\* new_config with the formatted values fvs set, and the first exception
setformatted(new_config, fvs) ==
    [doc |-> [new_config EXCEPT !.sections = [i \in 1..Len(@) |->
                 [@[i] EXCEPT !.items = [j \in 1..Len(@) |->
                     [@[j] EXCEPT !.val = fvs[i][j].val]]]]],
     err |-> firsterr([i \in 1..Len(fvs) |-> [err |-> firsterr(fvs[i])]])]

formatted(self, new_config, variables) ==
    setformatted(new_config, formattedvalues(self, new_config, variables))

(***************************************************************************)
(* SystemUnit.  The state of one unit object and of its unit directory.    *)
(***************************************************************************)
VARIABLES
    name,        \* SystemUnit._name, the base name
    type,        \* SystemUnit._type, also the extension of its config
    template,    \* SystemUnit._template
    batched,     \* SystemUnit._batched
    config,      \* the document of SystemUnit._config
    batch_vars,  \* vars(SystemUnit.batch_vars): a sequence of [k, v], v a list of str
    files,       \* the files under SystemUnit.path: name -> text
    result,      \* the last call: [op, err, out]
    text,        \* the text last serialized from config
    parsed,      \* the outcome of the last parse of text into a fresh document
    nops,        \* the number of document-changing calls made so far
    before,      \* history: config as it was at construction or at the last write()
    run          \* the call of _Run._unit_cmd that is under way, NoRun when none is

vars == <<name, type, template, batched, config, batch_vars, files, result, text,
          parsed, nops, before, run>>

\* no call of _unit_cmd is under way
NoRun ==
    [at |-> "idle", command |-> "", instance |-> <<>>, names |-> <<>>, i |-> 0,
     calls |-> <<>>, inflight |-> 0, stdout |-> <<>>, stderr |-> <<>>]

\* s.split(c) for a single character c
RECURSIVE split(_, _)
split(s, c) ==
    LET i == find(s, c) IN
    IF i = 0 THEN <<s>>
    ELSE <<SubSeq(s, 1, i - 1)>> \o split(SubSeq(s, i + 1, Len(s)), c)

contains(s, c) == \E i \in 1..Len(s) : s[i] = c

\* a name setter that takes one brace for a batch
name_setter_or(unit, raw) ==
    LET parts == split(raw, ".")
        base == parts[1]
        u1 == IF Len(parts) = 2 /\ parts[2] # <<>>
              THEN [unit EXCEPT !.type = parts[2]] ELSE unit
        name_parts == split(base, "@")
    IN IF Len(parts) > 2 THEN [u |-> unit, err |-> "AssertionError"]
       ELSE IF Len(name_parts) > 2 THEN [u |-> u1, err |-> "AssertionError"]
       ELSE IF Len(name_parts) = 2 /\ name_parts[2] # <<>>
       THEN [u |-> u1, err |-> "AssertionError"]
       ELSE [u |-> [u1 EXCEPT !.name = name_parts[1],
                              !.template = IF Len(name_parts) = 2 THEN TRUE ELSE @,
                              !.batched = contains(name_parts[1], "{")
                                          \/ contains(name_parts[1], "}")],
             err |-> NoErr]

\* the name setter on a unit [name, type, template, batched]: the unit
\* after the assignment and the exception raised.  The type is assigned
\* before the asserts on "@" are evaluated.
name_setter(unit, raw) ==
    LET parts == split(raw, ".")
        base == parts[1]
        u1 == IF Len(parts) = 2 /\ parts[2] # <<>>
              THEN [unit EXCEPT !.type = parts[2]] ELSE unit
        name_parts == split(base, "@")
    IN IF Len(parts) > 2 THEN [u |-> unit, err |-> "AssertionError"]
       ELSE IF Len(name_parts) > 2 THEN [u |-> u1, err |-> "AssertionError"]
       ELSE IF Len(name_parts) = 2 /\ name_parts[2] # <<>>
       THEN [u |-> u1, err |-> "AssertionError"]
       ELSE [u |-> [u1 EXCEPT !.name = name_parts[1],
                              !.template = IF Len(name_parts) = 2 THEN TRUE ELSE @,
                              !.batched = contains(name_parts[1], "{")
                                          /\ contains(name_parts[1], "}")],
             err |-> NoErr]

\* SystemUnit.__init__ with the defaults type='service', template=False
SystemUnit(raw) ==
    name_setter([name |-> <<>>, type |-> Service_ext, template |-> FALSE,
                 batched |-> FALSE], raw).u

\* _init_config(None) on a unit: _type_maps[self.type](_name), then the
\* config setter, which assigns the config's name (the unit's name, with
\* "@" for a template) to the unit's name again when it is not empty
init_config(unit) ==
    LET _name == unit.name \o (IF unit.template THEN <<"@">> ELSE <<>>)
        renamed == IF _name = <<>> THEN [u |-> unit, err |-> NoErr]
                   ELSE name_setter(unit, _name)
    IN IF unit.type \notin {Target_ext, Service_ext, Timer_ext, Path_ext}
       THEN [u |-> unit, config |-> EmptyDoc, err |-> "KeyError"]
       ELSE [u |-> renamed.u,
             config |-> IF renamed.err # NoErr THEN EmptyDoc
                        ELSE IF unit.type = Target_ext THEN TargetConfig
                        ELSE IF unit.type = Service_ext THEN ServiceConfig
                        ELSE IF unit.type = Timer_ext THEN TimerConfig
                        ELSE PathConfig,
             err |-> renamed.err]

\* SystemUnit(raw): the attributes assigned, the config and the exception
construct(raw) ==
    LET named == name_setter([name |-> <<>>, type |-> Service_ext, template |-> FALSE,
                              batched |-> FALSE], raw)
    IN IF named.err # NoErr
       THEN [u |-> named.u, config |-> EmptyDoc, err |-> named.err]
       ELSE init_config(named.u)

template_str == IF template THEN <<"@">> ELSE <<>>

\* a rendering with the instance before the "@"
fullname_swapped(nm, instance) == nm \o instance \o template_str \o <<".">> \o type

\* _full_name(name, instance), instance '' when None
fullname(nm, instance) == nm \o template_str \o instance \o <<".">> \o type

full_name == fullname(name, <<>>)

\* a misaligned expansion: only the first variable follows the index
variables_at_first(bv, i) ==
    IF \E j \in 1..Len(bv) : Len(bv[j].v) < i
    THEN [vs |-> <<>>, err |-> "IndexError"]
    ELSE [vs |-> [j \in 1..Len(bv) |->
                    [k |-> bv[j].k, v |-> bv[j].v[IF j = 1 THEN i ELSE 1]]],
          err |-> NoErr]

\* {k: v[i] for k, v in batched_variables.items()}, i counted from 1
variables_at(bv, i) ==
    IF \E j \in 1..Len(bv) : Len(bv[j].v) < i
    THEN [vs |-> <<>>, err |-> "IndexError"]
    ELSE [vs |-> [j \in 1..Len(bv) |-> [k |-> bv[j].k, v |-> bv[j].v[i]]],
          err |-> NoErr]

\* the outcomes of a loop up to, and without, its first exception
prefix(rs) ==
    IF firsterr(rs) = NoErr THEN rs
    ELSE SubSeq(rs, 1, (CHOOSE i \in 1..Len(rs) :
                           rs[i].err # NoErr /\ \A j \in 1..(i - 1) : rs[j].err = NoErr) - 1)

\* expanded_names(): the names and the exception raised
formatted_name(fn) ==
    IF fn.err # NoErr THEN [name |-> <<>>, err |-> fn.err]
    ELSE [name |-> fullname(fn.s, <<>>), err |-> NoErr]

expanded_name_with(nm, vs) ==
    IF vs.err # NoErr THEN [name |-> <<>>, err |-> vs.err]
    ELSE formatted_name(format(nm, vs.vs))

expanded_name_at(nm, bv, i) == expanded_name_with(nm, variables_at(bv, i))

\* expanded_name(instance, **batch_kws): the name is formatted only when
\* keyword arguments are given
expanded_name(nm, instance, batch_kws) ==
    IF batch_kws = <<>> THEN [name |-> fullname(nm, instance), err |-> NoErr]
    ELSE LET fn == format(nm, batch_kws)
         IN IF fn.err # NoErr THEN [name |-> <<>>, err |-> fn.err]
            ELSE [name |-> fullname(fn.s, instance), err |-> NoErr]

\* the names appended before the first exception, and that exception
names_of(rs) == [names |-> [i \in 1..Len(prefix(rs)) |-> rs[i].name], err |-> firsterr(rs)]

expanded_names(nm, bv) ==
    IF ~batched THEN [names |-> <<fullname(nm, <<>>)>>, err |-> NoErr]
    ELSE IF bv = <<>> THEN [names |-> <<>>, err |-> "AssertionError"]
    ELSE names_of([i \in 1..Len(bv[1].v) |-> expanded_name_at(nm, bv, i)])

\* one iteration of the generator batched_configs: the pair it yields, or
\* the exception it raises
yielded(fn, fc) ==
    IF fn.err # NoErr THEN [name |-> <<>>, config |-> fc.doc, err |-> fn.err]
    ELSE IF fc.err # NoErr THEN [name |-> <<>>, config |-> fc.doc, err |-> fc.err]
    ELSE [name |-> fullname(fn.s, <<>>), config |-> fc.doc, err |-> NoErr]

\* new_config is a deep copy of the unit's document cfg
batched_config_with(nm, cfg, vs) ==
    IF vs.err # NoErr THEN [name |-> <<>>, config |-> cfg, err |-> vs.err]
    ELSE yielded(format(nm, vs.vs), formatted(cfg, cfg, vs.vs))

batched_config_at(nm, cfg, bv, i) == batched_config_with(nm, cfg, variables_at(bv, i))

\* the pairs yielded before the first exception, and that exception
pairs_of(rs) ==
    [out |-> [i \in 1..Len(prefix(rs)) |-> [name |-> rs[i].name, config |-> rs[i].config]],
     err |-> firsterr(rs)]

\* batched_configs: the pairs yielded, in order, and the exception that ends
\* the iteration (NoErr when it is exhausted)
batched_configs(nm, cfg, bv) ==
    IF bv = <<>> THEN [out |-> <<>>, err |-> "AssertionError"]
    ELSE pairs_of([i \in 1..Len(bv[1].v) |-> batched_config_at(nm, cfg, bv, i)])

\* the configs yielded taken for one object: a set on one is a set on all
emitted_set_shared(pairs, i, section, option, value) ==
    [j \in 1..Len(pairs) |->
        [pairs[j] EXCEPT !.config = set(@, section, option, Scalar(value), FALSE).doc]]

\* config.set(section, option, value) on the i-th config yielded: every
\* config yielded is a deep copy made for its iteration
emitted_set(pairs, i, section, option, value) ==
    [pairs EXCEPT ![i].config = set(@, section, option, Scalar(value), FALSE).doc]

\* _write_batch: every pair is written when it is yielded, so the files of
\* the pairs before an exception are on disk when it is raised
RECURSIVE write_pairs(_, _, _)
write_pairs(fs, out, i) ==
    IF i > Len(out) THEN [files |-> fs, err |-> NoErr]
    ELSE LET w == write_config(out[i].config, type, fs, out[i].name)
         IN IF w.err # NoErr THEN [files |-> w.files, err |-> w.err]
            ELSE write_pairs(w.files, out, i + 1)

\* the exception of the loop: that of a write, else that of the generator
written(w, err) == [files |-> w.files, err |-> IF w.err # NoErr THEN w.err ELSE err]

write_yielded(bc, fs) == written(write_pairs(fs, bc.out, 1), bc.err)

write_batch(nm, cfg, bv, fs) == write_yielded(batched_configs(nm, cfg, bv), fs)

\* exists: all(...) over expanded_names()
unit_exists(nm, bv, fs) ==
    LET en == expanded_names(nm, bv)
    IN [out |-> \A i \in 1..Len(en.names) : exists(fs, en.names[i]), err |-> en.err]

\* os.remove(fname) of a file that exists
removefile(fs, fname) == [n \in DOMAIN fs \ {fname} |-> fs[n]]

\* the loop of remove(): a file that is there is removed, a name without a
\* file is warned about; the files left and the names warned about
RECURSIVE remove_names(_, _, _, _)
remove_names(fs, names, i, warned) ==
    IF i > Len(names) THEN [files |-> fs, warnings |-> warned]
    ELSE IF exists(fs, names[i])
         THEN remove_names(removefile(fs, names[i]), names, i + 1, warned)
         ELSE remove_names(fs, names, i + 1, Append(warned, names[i]))

\* remove(): expanded_names() has returned before the first file is removed
unit_remove(nm, bv, fs) ==
    LET en == expanded_names(nm, bv)
    IN IF en.err # NoErr THEN [files |-> fs, warnings |-> <<>>, err |-> en.err]
       ELSE [err |-> NoErr] @@ remove_names(fs, en.names, 1, <<>>)

\* existing without the test for the file
unit_existing_all(nm, bv, fs) ==
    LET en == expanded_names(nm, bv)
    IN IF ~batched THEN [out |-> <<>>, err |-> "AssertionError"]
       ELSE IF en.err # NoErr THEN [out |-> <<>>, err |-> en.err]
       ELSE [out |-> en.names, err |-> NoErr]

\* existing: the expanded names that have a file, for a batched unit
unit_existing(nm, bv, fs) ==
    LET en == expanded_names(nm, bv)
    IN IF ~batched THEN [out |-> <<>>, err |-> "AssertionError"]
       ELSE IF en.err # NoErr THEN [out |-> <<>>, err |-> en.err]
       ELSE [out |-> SelectSeq(en.names, LAMBDA n : exists(fs, n)), err |-> NoErr]

\* self._full_name(self._formatted_name(**_variables), instance)
instance_name(fn, instance) ==
    IF fn.err # NoErr THEN [name |-> <<>>, err |-> fn.err]
    ELSE [name |-> fullname(fn.s, instance), err |-> NoErr]

instance_name_at(nm, vs, instance) ==
    IF vs.err # NoErr THEN [name |-> <<>>, err |-> vs.err]
    ELSE instance_name(format(nm, vs.vs), instance)

\* expanded_names(instance): the names and the exception raised; for a unit
\* that is not batched the one name is expanded_name(instance)
expanded_names_instance(nm, bv, instance) ==
    IF ~batched THEN [names |-> <<fullname(nm, instance)>>, err |-> NoErr]
    ELSE IF bv = <<>> THEN [names |-> <<>>, err |-> "AssertionError"]
    ELSE names_of([i \in 1..Len(bv[1].v) |->
                      instance_name_at(nm, variables_at(bv, i), instance)])

\* the loop of _unit_cmd at its first name
next_call_first(r) == r.names[1]

\* the name the loop of _unit_cmd is at
next_call(r) == r.names[r.i]

\* _unit_cmd up to its first await: the names are all expanded before the
\* first invocation
unit_cmd(nm, bv, command, instance) ==
    LET en == expanded_names_instance(nm, bv, instance)
    IN [run |-> [at |-> "loop", command |-> command, instance |-> instance,
                 names |-> en.names, i |-> 1, calls |-> <<>>, inflight |-> 0,
                 stdout |-> <<>>, stderr |-> <<>>],
        err |-> en.err]

\* await asyncio.create_subprocess_exec('systemctl', manager, command, name)
invoked(r) ==
    [r EXCEPT !.at = "awaiting", !.calls = Append(@, next_call(r)), !.inflight = @ + 1]

\* proc.communicate() has returned out and err: stdout[name] = _stdout and
\* stderr[name] = _stderr for a batched unit, the pair itself otherwise
completed(r, out, err) ==
    [r EXCEPT !.at = "loop", !.inflight = @ - 1, !.i = @ + 1,
              !.stdout = IF batched THEN setitem(@, next_call(r), out) ELSE out,
              !.stderr = IF batched THEN setitem(@, next_call(r), err) ELSE err]

(***************************************************************************)
(* The calls on a unit.  A call that raises leaves what it had changed up  *)
(* to the exception, and result.err names the exception.                   *)
(***************************************************************************)
Result(op, err, out) == [op |-> op, err |-> err, out |-> out]

\* SystemUnit.set(section, option, value, multioption)
Set(section, option, value, multioption) ==
    /\ nops < MaxOps
    /\ LET r == set(config, section, option, Scalar(value), multioption)
       IN /\ config' = r.doc
          /\ result' = Result("set", r.err, <<>>)
    /\ nops' = nops + 1
    /\ UNCHANGED <<name, type, template, batched, batch_vars, files, text, parsed, before,
                   run>>

\* SystemUnit.append(section, option, value)
AppendValue(section, option, value) ==
    /\ nops < MaxOps
    /\ LET r == append(config, section, option, value)
       IN /\ config' = r.doc
          /\ result' = Result("append", r.err, <<>>)
    /\ nops' = nops + 1
    /\ UNCHANGED <<name, type, template, batched, batch_vars, files, text, parsed, before,
                   run>>

\* unit.config.update_internal_section(name, **options)
UpdateInternalSection(section, options) ==
    /\ nops < MaxOps
    /\ config' = update_internal_section(config, section, options)
    /\ result' = Result("update_internal_section", NoErr, <<>>)
    /\ nops' = nops + 1
    /\ UNCHANGED <<name, type, template, batched, batch_vars, files, text, parsed, before,
                   run>>

\* unit.config.set_internal(section); self[section] raises KeyError for a
\* section that does not exist
SetInternal(section) ==
    /\ nops < MaxOps
    /\ IF has_section(config, section)
       THEN /\ config' = set_internal(config, section)
            /\ result' = Result("set_internal", NoErr, <<>>)
       ELSE /\ config' = config
            /\ result' = Result("set_internal", "KeyError", <<>>)
    /\ nops' = nops + 1
    /\ UNCHANGED <<name, type, template, batched, batch_vars, files, text, parsed, before,
                   run>>

\* SystemUnit.write()
\* what write() does: every config written is a deep copy when the unit is
\* batched, and the unit's own config otherwise
unit_write(nm, cfg, bv, fs) ==
    IF batched
    THEN [doc |-> cfg] @@ write_batch(nm, cfg, bv, fs)
    ELSE write_config(cfg, type, fs, fullname(nm, <<>>))

Written(w) ==
    /\ config' = w.doc
    /\ files' = w.files
    /\ result' = Result("write", w.err, <<>>)

Write ==
    /\ Written(unit_write(name, config, batch_vars, files))
    /\ before' = config
    /\ UNCHANGED <<name, type, template, batched, batch_vars, text, parsed, nops, run>>

\* SystemUnit.read()
Read ==
    /\ nops < MaxOps
    /\ LET r == read_config(config, files, full_name)
       IN /\ config' = r.doc
          /\ result' = Result("read", r.err, <<>>)
    /\ nops' = nops + 1
    /\ UNCHANGED <<name, type, template, batched, batch_vars, files, text, parsed, before,
                   run>>

\* iterating SystemUnit.batched_configs to its end
BatchedConfigs ==
    /\ LET bc == batched_configs(name, config, batch_vars)
       IN result' = Result("batched_configs", bc.err, bc.out)
    /\ UNCHANGED <<name, type, template, batched, config, batch_vars, files, text,
                   parsed, nops, before, run>>

\* the caller sets an option of the i-th config that batched_configs yielded
ChangeEmitted(i, section, option, value) ==
    /\ result.op = "batched_configs"
    /\ result.err = NoErr
    /\ i \in 1..Len(result.out)
    /\ result' = Result("change_emitted", NoErr,
                        emitted_set(result.out, i, section, option, value))
    /\ UNCHANGED <<name, type, template, batched, config, batch_vars, files, text,
                   parsed, nops, before, run>>

\* SystemUnit.expanded_names()
ExpandedNames ==
    /\ LET en == expanded_names(name, batch_vars)
       IN result' = Result("expanded_names", en.err, en.names)
    /\ UNCHANGED <<name, type, template, batched, config, batch_vars, files, text,
                   parsed, nops, before, run>>

\* SystemUnit.exists
Exists ==
    /\ LET ex == unit_exists(name, batch_vars, files)
       IN result' = Result("exists", ex.err, ex.out)
    /\ UNCHANGED <<name, type, template, batched, config, batch_vars, files, text,
                   parsed, nops, before, run>>

\* config.write(fp) into a string
Serialize ==
    /\ result.op = "init"
    /\ text' = write(config)
    /\ result' = Result("serialize", NoErr, <<>>)
    /\ UNCHANGED <<name, type, template, batched, config, batch_vars, files, parsed,
                   nops, before, run>>

\* UnitConfig().read_string(text): the serialized text read into a fresh
\* document
Parse ==
    /\ result.op = "serialize"
    /\ parsed' = read(UnitConfig, text)
    /\ result' = Result("parse", parsed'.err, <<>>)
    /\ UNCHANGED <<name, type, template, batched, config, batch_vars, files, text,
                   nops, before, run>>

\* SystemUnit.remove(); result.out is the names warned about
Remove ==
    /\ LET r == unit_remove(name, batch_vars, files)
       IN /\ files' = r.files
          /\ result' = Result("remove", r.err, r.warnings)
    /\ UNCHANGED <<name, type, template, batched, config, batch_vars, text, parsed,
                   nops, before, run>>

\* SystemUnit.existing
Existing ==
    /\ LET ex == unit_existing(name, batch_vars, files)
       IN result' = Result("existing", ex.err, ex.out)
    /\ UNCHANGED <<name, type, template, batched, config, batch_vars, files, text,
                   parsed, nops, before, run>>

\* a file of the unit directory is removed from outside the unit, by
\* another unit's remove()
DeleteFile(fname) ==
    /\ exists(files, fname)
    /\ files' = removefile(files, fname)
    /\ result' = Result("delete", NoErr, <<>>)
    /\ UNCHANGED <<name, type, template, batched, config, batch_vars, text, parsed,
                   nops, before, run>>

\* unit.set(section, option, unit.config.get(section, from), multioption):
\* get returns the object the option from holds
SetFrom(section, option, from, multioption) ==
    /\ nops < MaxOps
    /\ from # option
    /\ IF ~has_section(config, section)
       THEN /\ config' = config
            /\ result' = Result("set_from", "NoSectionError", <<>>)
       ELSE IF ~has_option(items(config, section), from)
       THEN /\ config' = config
            /\ result' = Result("set_from", "NoOptionError", <<>>)
       ELSE /\ config' = IF get(config, section, from).list
                         THEN share(setobject(config, section, option,
                                              get(config, section, from), multioption).doc,
                                    <<section, option>>, <<section, from>>)
                         ELSE set(config, section, option, get(config, section, from),
                                  multioption).doc
            /\ result' = Result("set_from", NoErr, <<>>)
    /\ nops' = nops + 1
    /\ UNCHANGED <<name, type, template, batched, batch_vars, files, text, parsed, before,
                   run>>

\* unit.config.add_section(section)
AddSection(section) ==
    /\ nops < MaxOps
    /\ LET r == add_section(config, section)
       IN /\ config' = r.doc
          /\ result' = Result("add_section", r.err, <<>>)
    /\ nops' = nops + 1
    /\ UNCHANGED <<name, type, template, batched, batch_vars, files, text, parsed, before,
                   run>>

\* unit.config.pop_section(section)
PopSection(section) ==
    /\ nops < MaxOps
    /\ LET r == pop_section(config, section)
       IN /\ config' = r.doc
          /\ result' = Result("pop_section", r.err, <<>>)
    /\ nops' = nops + 1
    /\ UNCHANGED <<name, type, template, batched, batch_vars, files, text, parsed, before,
                   run>>

\* unit.config.set_external(section); self[section] raises KeyError for a
\* section that does not exist
SetExternal(section) ==
    /\ nops < MaxOps
    /\ IF has_section(config, section)
       THEN /\ config' = set_external(config, section)
            /\ result' = Result("set_external", NoErr, <<>>)
       ELSE /\ config' = config
            /\ result' = Result("set_external", "KeyError", <<>>)
    /\ nops' = nops + 1
    /\ UNCHANGED <<name, type, template, batched, batch_vars, files, text, parsed, before,
                   run>>

\* unit.config.is_internal(section); self[section] raises KeyError for a
\* section that does not exist.  result.out is the section asked for and
\* the value returned
IsInternal(section) ==
    /\ IF has_section(config, section)
       THEN result' = Result("is_internal", NoErr, <<section, is_internal(config, section)>>)
       ELSE result' = Result("is_internal", "KeyError", <<section>>)
    /\ UNCHANGED <<name, type, template, batched, config, batch_vars, files, text,
                   parsed, nops, before, run>>

\* unit.run.status/start/stop/enable/disable(instance) is called: _unit_cmd
\* runs up to its first await, or raises the exception of expanded_names
UnitCmd(command, instance) ==
    /\ run.at = "idle"
    /\ LET c == unit_cmd(name, batch_vars, command, instance)
       IN IF c.err # NoErr
          THEN /\ run' = run
               /\ result' = Result(command, c.err, <<>>)
          ELSE /\ run' = c.run
               /\ result' = result
    /\ UNCHANGED <<name, type, template, batched, config, batch_vars, files, text,
                   parsed, nops, before>>

\* async_systemctl starts systemctl for the name the loop is at
Invoke ==
    /\ run.at = "loop"
    /\ run.i <= Len(run.names)
    /\ run' = invoked(run)
    /\ UNCHANGED <<name, type, template, batched, config, batch_vars, files, result,
                   text, parsed, nops, before>>

\* the systemctl process ends with the output out and err
Complete(out, err) ==
    /\ run.at = "awaiting"
    /\ run' = completed(run, out, err)
    /\ UNCHANGED <<name, type, template, batched, config, batch_vars, files, result,
                   text, parsed, nops, before>>

\* _unit_cmd returns stdout, stderr: two dicts for a batched unit, two
\* strings otherwise
Return ==
    /\ run.at = "loop"
    /\ run.i > Len(run.names)
    /\ run' = [run EXCEPT !.at = "done"]
    /\ result' = Result(run.command, NoErr,
                        [dict |-> batched, stdout |-> run.stdout, stderr |-> run.stderr])
    /\ UNCHANGED <<name, type, template, batched, config, batch_vars, files, text,
                   parsed, nops, before>>

\* unit.name = raw on a unit that has been constructed
SetName(raw) ==
    /\ nops < MaxOps
    /\ LET r == name_setter([name |-> name, type |-> type, template |-> template,
                             batched |-> batched], raw)
       IN /\ name' = r.u.name
          /\ type' = r.u.type
          /\ template' = r.u.template
          /\ batched' = r.u.batched
          /\ result' = Result("name", r.err, <<>>)
    /\ nops' = nops + 1
    /\ UNCHANGED <<config, batch_vars, files, text, parsed, before, run>>

\* SystemUnit(raw), raw being result.out of the call that is to be made
Construct ==
    /\ result.op = "new"
    /\ LET c == construct(result.out)
       IN /\ name' = c.u.name
          /\ type' = c.u.type
          /\ template' = c.u.template
          /\ batched' = c.u.batched
          /\ config' = c.config
          /\ result' = Result("construct", c.err, result.out)
    /\ UNCHANGED <<batch_vars, files, text, parsed, nops, before, run>>

\* full_name of a unit that has been constructed
FullName ==
    /\ result.op # "new"
    /\ config # EmptyDoc
    /\ result' = Result("full_name", NoErr, full_name)
    /\ UNCHANGED <<name, type, template, batched, config, batch_vars, files, text,
                   parsed, nops, before, run>>

\* expanded_name(instance, **batch_kws) of a unit that has been constructed
ExpandedName(instance, batch_kws) ==
    /\ result.op # "new"
    /\ config # EmptyDoc
    /\ LET en == expanded_name(name, instance, batch_kws)
       IN result' = Result("expanded_name", en.err, en.name)
    /\ UNCHANGED <<name, type, template, batched, config, batch_vars, files, text,
                   parsed, nops, before, run>>

\* config.read_string(text): the text read into the unit's document
ReadString ==
    /\ result.op = "init"
    /\ parsed' = read(config, text)
    /\ config' = parsed'.doc
    /\ result' = Result("read_string", parsed'.err, parsed'.e)
    /\ UNCHANGED <<name, type, template, batched, batch_vars, files, text, nops, before, run>>

(***************************************************************************)
(* Inputs of the calls.                                                    *)
(***************************************************************************)
X == <<"X">>

key_k == <<"k">>

key_z == <<"z">>

var_t == <<"t">>

var_u == <<"u">>

Sections == {Unit, X}

Options == {key_k, key_z}

Values == {<<"a">>, <<"a", "b">>}

\* the keyword arguments given to update_internal_section
OptionDicts == {<<>>, <<[key |-> key_k, val |-> <<"a">>]>>}

\* 'svc.service' and 's{t}.service'
RawName == <<"s", "v", "c", ".">> \o Service_ext

BatchRawName == <<"s", "{", "t", "}", ".">> \o Service_ext

NothingParsed == [doc |-> EmptyDoc, err |-> NoErr, e |-> <<>>]

\* the unit right after SystemUnit(raw), in an empty unit directory
Constructed(raw) ==
    LET unit == SystemUnit(raw)
    IN /\ name = unit.name
       /\ type = unit.type
       /\ template = unit.template
       /\ batched = unit.batched
       /\ files = <<>>
       /\ result = Result("init", NoErr, <<>>)
       /\ text = <<>>
       /\ parsed = NothingParsed
       /\ nops = 0

(***************************************************************************)
(* Spec: the life of one unit that is not batched.                         *)
(***************************************************************************)
\* _init_config gives a 'service' unit a ServiceConfig, and _init_batch_vars
\* sets no batch variable
Init ==
    /\ Constructed(RawName)
    /\ config = ServiceConfig
    /\ batch_vars = <<>>
    /\ before = config
    /\ run = NoRun

Next ==
    \/ \E section \in Sections, option \in Options, value \in Values,
          multioption \in BOOLEAN : Set(section, option, value, multioption)
    \/ \E section \in Sections, option \in Options, value \in Values :
          AppendValue(section, option, value)
    \/ \E section \in {X, <<"x", "-">> \o X}, options \in OptionDicts :
          UpdateInternalSection(section, options)
    \/ \E section \in Sections : SetInternal(section)
    \/ Write
    \/ Read

Spec == Init /\ [][Next]_vars

(***************************************************************************)
(* SpecRT: serializing a document and parsing the text into a fresh        *)
(* document.  The documents are those set() builds on a UnitConfig with or *)
(* without a second section: one option k, scalar or multi-valued, alone   *)
(* in its section or with an option z before or after it.                  *)
(***************************************************************************)
RTStrings == {<<"a">>, <<"b">>, <<>>}

RTLists == UNION {[1..n -> RTStrings] : n \in 1..MaxLen}

\* the arguments (value, multioption) of set for the option k
RTValues ==
    {[val |-> Scalar(s), multi |-> FALSE] : s \in RTStrings}
    \cup {[val |-> List(l), multi |-> TRUE] : l \in RTLists}

RTDoc(withX, section, kv, zpos) ==
    LET d0 == IF withX THEN add_section(UnitConfig, X).doc ELSE UnitConfig
        d1 == IF zpos = "before" THEN set(d0, section, key_z, Scalar(<<"q">>), FALSE).doc ELSE d0
        d2 == set(d1, section, key_k, kv.val, kv.multi).doc
    IN IF zpos = "after" THEN set(d2, section, key_z, Scalar(<<"q">>), FALSE).doc ELSE d2

RTDocs ==
    {RTDoc(FALSE, Unit, kv, zpos) : kv \in RTValues, zpos \in {"none", "before", "after"}}
    \cup {RTDoc(TRUE, section, kv, zpos) :
            section \in Sections, kv \in RTValues, zpos \in {"none", "before", "after"}}

InitRT ==
    /\ Constructed(RawName)
    /\ config \in RTDocs
    /\ batch_vars = <<>>
    /\ before = config
    /\ run = NoRun

NextRT ==
    \/ Serialize
    \/ Parse

SpecRT == InitRT /\ [][NextRT]_vars

(***************************************************************************)
(* SpecBatch: the expansion of a batched unit, s{t}.service.  The document *)
(* is a ServiceConfig with or without an option k in 'Unit' and with or    *)
(* without an internal section X; the batch variables are any of t and u,  *)
(* in either order, each with a list of at most MaxN values.               *)
(***************************************************************************)
BatchStrings == {<<"a">>, <<"{", "t", "}">>, <<"{", "t", "}", "{", "u", "}">>}

BatchLists == {<<<<"{", "t", "}">>>>,
               <<<<"{", "t", "}">>, <<"{", "u", "}">>>>,
               <<<<"a">>, <<"{", "t", "}">>>>}

BatchValues ==
    {[val |-> Scalar(s), multi |-> FALSE] : s \in BatchStrings}
    \cup {[val |-> List(l), multi |-> TRUE] : l \in BatchLists}

BatchDoc(kv, xopts) ==
    LET d1 == IF kv = <<>> THEN ServiceConfig
              ELSE set(ServiceConfig, Unit, key_k, kv[1].val, kv[1].multi).doc
    IN IF xopts = <<>> THEN d1 ELSE update_internal_section(d1, X, xopts[1])

BatchDocs ==
    {BatchDoc(kv, xopts) :
        kv \in {<<>>} \cup {<<v>> : v \in BatchValues},
        xopts \in {<<>>, <<<<>>>>, <<<<[key |-> key_k, val |-> <<"{", "u", "}">>]>>>>}}

VarNames == {var_t, var_u}

VarValues == {<<"1">>, <<"2">>}

VarLists == UNION {[1..n -> VarValues] : n \in 0..MaxN}

BatchVarSets ==
    {<<>>}
    \cup {<<[k |-> a, v |-> l]>> : a \in VarNames, l \in VarLists}
    \cup {<<[k |-> ab[1], v |-> l], [k |-> ab[2], v |-> m]>> :
            ab \in {<<var_t, var_u>>, <<var_u, var_t>>}, l \in VarLists, m \in VarLists}

InitBatch ==
    /\ Constructed(BatchRawName)
    /\ config \in BatchDocs
    /\ batch_vars \in BatchVarSets
    /\ before = config
    /\ run = NoRun

NextBatch ==
    \/ Write
    \/ BatchedConfigs
    \/ ExpandedNames
    \/ Exists

SpecBatch == InitBatch /\ [][NextBatch]_vars

(***************************************************************************)
(* SpecParse: reading a text of at most MaxLines lines into a document,    *)
(* either a fresh UnitConfig or one that holds a section X with a scalar   *)
(* option k.  The lines are headers, option lines, a line without          *)
(* delimiter, a line without key, a blank line, a comment and an indented  *)
(* line.                                                                   *)
(***************************************************************************)
ParseLines ==
    {<<"[", "X", "]">>, <<"k", "=", "a">>, <<"k", "=", "b">>, <<"K", "=", "a">>,
     <<"b", "a", "d">>, <<"=", "a">>, <<>>, <<"#", "c">>, <<" ", "c">>}

ParseTexts ==
    {join([i \in 1..Len(ls) |-> ls[i] \o <<NL>>], <<>>) :
        ls \in UNION {[1..n -> ParseLines] : n \in 0..MaxLines}}

ParseDocs ==
    {UnitConfig, set(add_section(UnitConfig, X).doc, X, key_k, Scalar(<<"v">>), FALSE).doc}

InitParse ==
    /\ name = SystemUnit(RawName).name
    /\ type = SystemUnit(RawName).type
    /\ template = SystemUnit(RawName).template
    /\ batched = SystemUnit(RawName).batched
    /\ files = <<>>
    /\ result = Result("init", NoErr, <<>>)
    /\ text \in ParseTexts
    /\ parsed = NothingParsed
    /\ nops = 0
    /\ config \in ParseDocs
    /\ batch_vars = <<>>
    /\ before = config
    /\ run = NoRun

NextParse == ReadString

SpecParse == InitParse /\ [][NextParse]_vars

(***************************************************************************)
(* SpecName: constructing a unit from a raw name of at most MaxTokens      *)
(* tokens and rendering its names.                                         *)
(***************************************************************************)
NameTokens == {<<"s">>, <<".">>, <<"@">>, <<"{">>, <<"}">>, Timer_ext}

RawNames ==
    {join(ts, <<>>) : ts \in UNION {[1..n -> NameTokens] : n \in 0..MaxTokens}}

Instances == {<<>>, <<"i">>, <<"{", "s", "}">>}

BatchKws == {<<>>, <<[k |-> <<"s">>, v |-> <<"1">>]>>, <<[k |-> <<"x">>, v |-> <<"1">>]>>}

InitName ==
    /\ name = <<>>
    /\ type = Service_ext
    /\ template = FALSE
    /\ batched = FALSE
    /\ config = EmptyDoc
    /\ batch_vars = <<>>
    /\ files = <<>>
    /\ result \in {Result("new", NoErr, raw) : raw \in RawNames}
    /\ text = <<>>
    /\ parsed = NothingParsed
    /\ nops = 0
    /\ before = EmptyDoc
    /\ run = NoRun

NextName ==
    \/ Construct
    \/ FullName
    \/ \E instance \in Instances, batch_kws \in BatchKws : ExpandedName(instance, batch_kws)

SpecName == InitName /\ [][NextName]_vars

(***************************************************************************)
(* SpecFiles: the files of a unit, svc.service or the batched s{t}.service *)
(* with any of the batch variable sets, through write(), remove() and      *)
(* removals from outside, in a directory that holds a file of another      *)
(* unit.                                                                   *)
(***************************************************************************)
OtherFile == <<"o", ".">> \o Service_ext

InitFiles ==
    /\ \E raw \in {RawName, BatchRawName} :
        /\ name = SystemUnit(raw).name
        /\ type = SystemUnit(raw).type
        /\ template = SystemUnit(raw).template
        /\ batched = SystemUnit(raw).batched
    /\ batch_vars \in (IF batched THEN BatchVarSets ELSE {<<>>})
    /\ config = ServiceConfig
    /\ files = [n \in {OtherFile} |-> <<"x">>]
    /\ result = Result("init", NoErr, <<>>)
    /\ text = <<>>
    /\ parsed = NothingParsed
    /\ nops = 0
    /\ before = config
    /\ run = NoRun

NextFiles ==
    \/ Write
    \/ Remove
    \/ \E fname \in DOMAIN files : DeleteFile(fname)
    \/ Exists
    \/ Existing

SpecFiles == InitFiles /\ [][NextFiles]_vars

(***************************************************************************)
(* SpecConfig: the calls on the document of a unit that is not batched:    *)
(* sections are added and marked, options are set, set to the value of     *)
(* another option, and appended to.                                        *)
(***************************************************************************)
InitConfig ==
    /\ Constructed(RawName)
    /\ config = ServiceConfig
    /\ batch_vars = <<>>
    /\ before = config
    /\ run = NoRun

NextConfig ==
    \/ \E section \in Sections, option \in Options, value \in Values,
          multioption \in BOOLEAN : Set(section, option, value, multioption)
    \/ \E section \in Sections, option \in Options, value \in Values :
          AppendValue(section, option, value)
    \/ \E section \in Sections, option \in Options, from \in Options,
          multioption \in BOOLEAN : SetFrom(section, option, from, multioption)
    \/ \E section \in Sections : AddSection(section)
    \/ \E section \in Sections : PopSection(section)
    \/ \E section \in {X, <<"x", "-">> \o X}, options \in OptionDicts :
          UpdateInternalSection(section, options)
    \/ \E section \in Sections : SetInternal(section)
    \/ \E section \in Sections : SetExternal(section)
    \/ \E section \in Sections : IsInternal(section)

SpecConfig == InitConfig /\ [][NextConfig]_vars

(***************************************************************************)
(* SpecCopies: the batched unit of SpecBatch is written and expanded, and  *)
(* the caller changes the documents the expansion has yielded.             *)
(***************************************************************************)
InitCopies == InitBatch

NextCopies ==
    \/ Write
    \/ BatchedConfigs
    \/ \E i \in 1..MaxN : ChangeEmitted(i, Unit, key_k, <<"q">>)

SpecCopies == InitCopies /\ [][NextCopies]_vars

(***************************************************************************)
(* SpecRun: one command of the unit controller on a unit that is not       *)
(* batched, on a batched unit and on a batched template, with any of the   *)
(* batch variable sets; systemctl answers with any of the outputs.         *)
(***************************************************************************)
Commands == {"status", "start", "stop", "enable", "disable"}

CmdInstances == {<<>>, <<"i">>}

\* what a systemctl process writes to stdout and stderr
Outputs == {<<<<>>, <<>>>>, <<<<"o">>, <<"e">>>>}

InitRun ==
    /\ \E raw \in {RawName, BatchRawName,
                    <<"s", "{", "t", "}", "@", ".">> \o Service_ext} :
        /\ name = SystemUnit(raw).name
        /\ type = SystemUnit(raw).type
        /\ template = SystemUnit(raw).template
        /\ batched = SystemUnit(raw).batched
    /\ batch_vars \in (IF batched THEN BatchVarSets ELSE {<<>>})
    /\ config = ServiceConfig
    /\ files = <<>>
    /\ result = Result("init", NoErr, <<>>)
    /\ text = <<>>
    /\ parsed = NothingParsed
    /\ nops = 0
    /\ before = config
    /\ run = NoRun

NextRun ==
    \/ \E command \in Commands, instance \in CmdInstances : UnitCmd(command, instance)
    \/ Invoke
    \/ \E o \in Outputs : Complete(o[1], o[2])
    \/ Return

SpecRun == InitRun /\ [][NextRun]_vars

(***************************************************************************)
(* SpecRename: a unit constructed with template=False from svc.service,    *)
(* s{t}.service or s@.service, whose name is assigned up to MaxOps times,  *)
(* each time a raw name of at most MaxLen tokens.                          *)
(***************************************************************************)
AssignedTokens == {<<"s">>, <<"@">>, <<"{">>, <<"}">>, <<".">> \o Timer_ext}

AssignedNames ==
    {join(ts, <<>>) : ts \in UNION {[1..n -> AssignedTokens] : n \in 0..MaxLen}}

InitRename ==
    /\ \E raw \in {RawName, BatchRawName, <<"s", "@", ".">> \o Service_ext} :
          Constructed(raw)
    /\ config = ServiceConfig
    /\ batch_vars = <<>>
    /\ before = config
    /\ run = NoRun

NextRename == \E raw \in AssignedNames : SetName(raw)

SpecRename == InitRename /\ [][NextRename]_vars

(***************************************************************************)
(* Properties.                                                             *)
(***************************************************************************)
\* the lines of text that assign key
KeyLines(txt, key) ==
    SelectSeq(readlines(txt), LAMBDA l : startswith(l, key \o <<"=">>))

\* the options of a document marked multi-valued that hold a list of n elements
MultiLists(doc, n) ==
    {ab \in UNION {{<<a, b>> : b \in 1..Len(doc.sections[a].items)} :
                      a \in 1..Len(doc.sections)} :
        /\ <<doc.sections[ab[1]].name, doc.sections[ab[1]].items[ab[2]].key>>
               \in doc.multioptions
        /\ doc.sections[ab[1]].items[ab[2]].val.list
        /\ Len(doc.sections[ab[1]].items[ab[2]].val.v) = n}

\* C1: an option set multi-valued to a list of 3 newline-free strings is
\* serialized as exactly 3 lines of its key, in list order, and parsing the
\* text back gives a list of exactly those 3 elements, in order.
C1_MultiValueFidelity ==
    result.op = "parse" =>
        \A ab \in MultiLists(config, 3) :
            LET sec == config.sections[ab[1]]
                it == sec.items[ab[2]]
            IN /\ KeyLines(text, it.key) = [i \in 1..3 |-> it.key \o <<"=">> \o it.val.v[i]]
               /\ parsed.err = NoErr
               /\ has_section(parsed.doc, sec.name)
               /\ has_option(items(parsed.doc, sec.name), it.key)
               /\ get(parsed.doc, sec.name, it.key) = List(it.val.v)

\* C2: for a document without internal sections, parsing its serialization
\* gives a document with the same sections, options and values: every
\* multi-valued option is a list of the same elements and every scalar is
\* the same scalar.
C2_RoundTrip ==
    result.op = "parse" =>
        /\ parsed.err = NoErr
        /\ parsed.doc.sections = config.sections

\* the document read_config hands to _internalise_internals
ToInternalise(doc, fs, fname) ==
    IF exists(fs, fname) THEN read(doc, fs[fname]).doc ELSE doc

\* C3: write() leaves every internal section S of the document it is called
\* on in place, still internal, at the same position and with the same
\* options, and adds no section x-S; and read() leaves the x-S sections of
\* the document it internalises under their names.
C3_TransformsPure ==
    [][/\ Write =>
            \A a \in 1..Len(config.sections) :
                config.sections[a].internal =>
                    /\ a <= Len(config'.sections)
                    /\ config'.sections[a] = config.sections[a]
                    /\ ~has_section(config', <<"x", "-">> \o config.sections[a].name)
       /\ (Read /\ result'.err = NoErr) =>
            \A a \in 1..Len(ToInternalise(config, files, full_name).sections) :
                LET sec == ToInternalise(config, files, full_name).sections[a]
                IN startswith(sec.name, <<"x", "-">>) => has_section(config', sec.name)
      ]_vars

\* C4: when a section X was internal in the document write() was called on,
\* the file holds the header [x-X] and no header [X], and a read() straight
\* after that write() gives a document in which X exists, is internal and
\* holds the options and values it held before the write().
C4_InternalOpaque ==
    [][(Read /\ result.op = "write" /\ result.err = NoErr) =>
          \A a \in 1..Len(before.sections) :
              before.sections[a].internal =>
                  LET S == before.sections[a].name
                      lines == readlines(files[full_name])
                  IN /\ \E n \in 1..Len(lines) : lines[n] = <<"[", "x", "-">> \o S \o <<"]">>
                     /\ \A n \in 1..Len(lines) : lines[n] # <<"[">> \o S \o <<"]">>
                     /\ result'.err = NoErr
                     /\ has_section(config', S)
                     /\ is_internal(config', S)
                     /\ items(config', S) = before.sections[a].items
      ]_vars

\* C5: after read() returns, the document is what parsing the file at the
\* full name into a fresh document of the unit and internalising it gives,
\* whatever the document held before the read().
C5_ReadReplaces ==
    [][(Read /\ result'.err = NoErr /\ exists(files, full_name)) =>
          config'.sections
              = internalise_internals(read(ServiceConfig, files[full_name]).doc).doc.sections
      ]_vars

\* the placeholders of a format string without escaped braces
RECURSIVE Placeholders(_)
Placeholders(s) ==
    IF s = <<>> THEN {}
    ELSE IF Head(s) = "{" /\ find(s, "}") # 0
         THEN {SubSeq(s, 2, find(s, "}") - 1)}
              \cup Placeholders(SubSeq(s, find(s, "}") + 1, Len(s)))
         ELSE Placeholders(Tail(s))

\* the strings held by the options of a document
Strings(doc) ==
    UNION {UNION {{doc.sections[a].items[b].val.v[c] :
                      c \in 1..Len(doc.sections[a].items[b].val.v)} :
                  b \in 1..Len(doc.sections[a].items)} :
           a \in 1..Len(doc.sections)}

\* a placeholder of the base name or of a value names no batch variable
Undeclared ==
    \E f \in Placeholders(name) \cup UNION {Placeholders(s) : s \in Strings(config)} :
        ~haskey(batch_vars, f)

\* the batch variables all have n values
AllOfLength(n) ==
    /\ batch_vars # <<>>
    /\ \A j \in 1..Len(batch_vars) : Len(batch_vars[j].v) = n

\* the i-th value of the batch variable f
ValueAt(f, i) ==
    batch_vars[CHOOSE j \in 1..Len(batch_vars) : batch_vars[j].k = f].v[i]

\* s with every placeholder replaced by the i-th value of its variable
RECURSIVE Subst(_, _)
Subst(s, i) ==
    IF s = <<>> THEN <<>>
    ELSE IF Head(s) = "{" /\ find(s, "}") # 0
         THEN ValueAt(SubSeq(s, 2, find(s, "}") - 1), i)
              \o Subst(SubSeq(s, find(s, "}") + 1, Len(s)), i)
         ELSE <<Head(s)>> \o Subst(Tail(s), i)

\* doc with every string of every option value substituted at index i
SubstDoc(doc, i) ==
    [sections |->
        [a \in 1..Len(doc.sections) |->
            [name |-> doc.sections[a].name,
             internal |-> doc.sections[a].internal,
             items |-> [b \in 1..Len(doc.sections[a].items) |->
                 [key |-> doc.sections[a].items[b].key,
                  val |-> [list |-> doc.sections[a].items[b].val.list,
                           v |-> [c \in 1..Len(doc.sections[a].items[b].val.v) |->
                                     Subst(doc.sections[a].items[b].val.v[c], i)]]]]]],
     multioptions |-> doc.multioptions,
     shared |-> doc.shared]

\* the expansion gave n pairs, the i-th with the name and the values
\* substituted at index i
Aligned(n) ==
    /\ result.err = NoErr
    /\ Len(result.out) = n
    /\ \A i \in 1..n :
        /\ result.out[i].name = Subst(name, i) \o template_str \o <<".">> \o type
        /\ result.out[i].config = SubstDoc(config, i)

C7_MismatchRejected ==
    (/\ result.op \in {"write", "batched_configs"}
     /\ \E i, j \in 1..Len(batch_vars) : Len(batch_vars[i].v) # Len(batch_vars[j].v))
    => result.err # NoErr

\* the exceptions of the batch expansion
ExpansionErrors == {"AssertionError", "IndexError", "KeyError", "ValueError"}

\* C8: a write() of a batched unit that fails in the expansion creates and
\* overwrites no file.
C8_AllOrNothing ==
    [][(result'.op = "write" /\ Write /\ batched /\ result'.err \in ExpansionErrors)
          => files' = files]_vars

\* C9: with no batch variables, or with variables whose sequences are all
\* empty, write(), the expansion of the names and the existence check end
\* with an error.
C9_EmptyBatchRejected ==
    (/\ result.op \in {"write", "batched_configs", "expanded_names", "exists"}
     /\ \/ batch_vars = <<>>
        \/ AllOfLength(0))
    => result.err # NoErr

\* C10: when the base name or a value holds a placeholder that names no
\* batch variable, the expansion and write() end with an error, and no
\* yielded document and no written file holds a placeholder.
C10_UndeclaredRejected ==
    /\ (result.op \in {"write", "batched_configs"} /\ Undeclared) => result.err # NoErr
    /\ result.op = "batched_configs" =>
        \A i \in 1..Len(result.out) :
            /\ Placeholders(result.out[i].name) = {}
            /\ \A s \in Strings(result.out[i].config) : Placeholders(s) = {}
    /\ \A f \in DOMAIN files : Placeholders(f) = {} /\ Placeholders(files[f]) = {}

\* C11: a parse that fails, with an option line before any section header
\* or with malformed lines reported at the end of the input, leaves the
\* document that is read into exactly as it was before the parse.
C11_NoPartialDocument ==
    [][(/\ result'.op = "read_string"
        /\ ReadString
        /\ result'.err \in {"NameError", "ParsingError"})
          => config' = config]_vars

\* the indentation of a line
Indent(l) == Len(l) - Len(lstrip(l))

\* the position of the first delimiter of a stripped line, 0 without one
FirstDelimiter(v) ==
    IF \E i \in 1..Len(v) : v[i] \in {"=", ":"}
    THEN CHOOSE i \in 1..Len(v) :
            v[i] \in {"=", ":"} /\ \A j \in 1..(i - 1) : v[j] \notin {"=", ":"}
    ELSE 0

\* what a line is, given whether an option is open and how far the line
\* that opened it is indented
KindOf(l, open, lvl) ==
    LET v == strip(l)
    IN IF v = <<>> THEN "blank"
       ELSE IF v[1] \in {"#", ";"} THEN "comment"
       ELSE IF open /\ Indent(l) > lvl THEN "continuation"
       ELSE IF v[1] = "[" /\ Len(v) >= 3 /\ \E i \in 3..Len(v) : v[i] = "]" THEN "header"
       ELSE IF FirstDelimiter(v) = 0 THEN "malformed"
       ELSE IF rstrip(SubSeq(v, 1, FirstDelimiter(v) - 1)) = <<>> THEN "keyless"
       ELSE "option"

\* the kinds of the lines from the n-th on
RECURSIVE Kinds(_, _, _, _)
Kinds(lines, n, open, lvl) ==
    IF n > Len(lines) THEN <<>>
    ELSE LET kind == KindOf(lines[n], open, lvl)
         IN <<kind>> \o Kinds(lines, n + 1,
                              IF kind \in {"header", "keyless"} THEN FALSE
                              ELSE IF kind = "option" THEN TRUE ELSE open,
                              IF kind \in {"blank", "comment", "continuation"} THEN lvl
                              ELSE Indent(lines[n]))

TextKinds == Kinds(readlines(text), 1, FALSE, 0)

\* the first line that is neither blank nor a comment, if any, is a header
HeaderFirst ==
    \A n \in 1..Len(TextKinds) :
        (\A m \in 1..(n - 1) : TextKinds[m] \in {"blank", "comment"})
            => TextKinds[n] \in {"blank", "comment", "header"}

\* the numbers of the malformed lines, from the n-th line on, in input order
RECURSIVE MalformedFrom(_)
MalformedFrom(n) ==
    IF n > Len(TextKinds) THEN <<>>
    ELSE (IF TextKinds[n] \in {"malformed", "keyless"} THEN <<n>> ELSE <<>>)
         \o MalformedFrom(n + 1)

\* the name of a header line, the key and the value of an option line
HeaderName(l) ==
    SubSeq(strip(l), 2, (CHOOSE i \in 3..Len(strip(l)) :
                            strip(l)[i] = "]" /\ \A j \in (i + 1)..Len(strip(l)) :
                                                    strip(l)[j] # "]") - 1)

KeyOf(l) == rstrip(SubSeq(strip(l), 1, FirstDelimiter(strip(l)) - 1))

ValueOf(l) == strip(SubSeq(strip(l), FirstDelimiter(strip(l)) + 1, Len(strip(l))))

\* the section the n-th line belongs to: the name of the last header before it
SectionAt(n) ==
    HeaderName(readlines(text)[CHOOSE m \in 1..(n - 1) :
        TextKinds[m] = "header" /\ \A j \in (m + 1)..(n - 1) : TextKinds[j] # "header"])

RECURSIVE Occurrences(_, _, _)
Occurrences(S, K, n) ==
    IF n > Len(TextKinds) THEN <<>>
    ELSE (IF /\ TextKinds[n] = "option"
             /\ SectionAt(n) = S
             /\ KeyOf(readlines(text)[n]) = K
          THEN <<ValueOf(readlines(text)[n])>> ELSE <<>>)
         \o Occurrences(S, K, n + 1)

\* C13: in a text of headers, option lines, blank lines and comments that
\* is parsed into a fresh document, a key that occurs k >= 2 times in a
\* section, also under repeated headers of the section, is a multi-valued
\* option holding exactly the k values in source order, and a key that
\* occurs once is a scalar; keys are compared verbatim.
C13_DuplicateKeysAccumulate ==
    (/\ result.op = "read_string"
     /\ before = UnitConfig
     /\ HeaderFirst
     /\ \A n \in 1..Len(TextKinds) : TextKinds[n] \in {"header", "option", "blank", "comment"})
    => /\ result.err = NoErr
       /\ \A n \in 1..Len(TextKinds) :
            TextKinds[n] = "option" =>
                LET S == SectionAt(n)
                    K == KeyOf(readlines(text)[n])
                    occ == Occurrences(S, K, 1)
                IN /\ has_section(config, S)
                   /\ has_option(items(config, S), K)
                   /\ IF Len(occ) >= 2
                      THEN /\ get(config, S, K) = List(occ)
                           /\ <<S, K>> \in config.multioptions
                      ELSE /\ get(config, S, K) = Scalar(occ[1])
                           /\ <<S, K>> \notin config.multioptions

\* how often the character c occurs in s
Count(s, c) == Cardinality({i \in 1..Len(s) : s[i] = c})

\* the text of s before the first c (all of s without a c) and after it
Before(s, c) ==
    IF Count(s, c) = 0 THEN s
    ELSE SubSeq(s, 1, (CHOOSE i \in 1..Len(s) :
                          s[i] = c /\ \A j \in 1..(i - 1) : s[j] # c) - 1)

After(s, c) ==
    SubSeq(s, (CHOOSE i \in 1..Len(s) : s[i] = c /\ \A j \in 1..(i - 1) : s[j] # c) + 1,
           Len(s))

\* more than one ".", more than one "@" before the dot, or text after the "@"
InvalidName(raw) ==
    \/ Count(raw, ".") > 1
    \/ Count(Before(raw, "."), "@") > 1
    \/ Count(Before(raw, "."), "@") = 1 /\ After(Before(raw, "."), "@") # <<>>

BaseOf(raw) == Before(Before(raw, "."), "@")

KindOfName(raw) ==
    IF Count(raw, ".") = 1 /\ After(raw, ".") # <<>> THEN After(raw, ".") ELSE Service_ext

C15_FullNameRendering ==
    [][/\ (result'.op = "full_name" /\ FullName) =>
            /\ result'.out = name \o (IF template THEN <<"@">> ELSE <<>>) \o <<".">> \o type
            /\ (/\ result.op = "construct"
                /\ Count(result.out, ".") = 1
                /\ After(result.out, ".") # <<>>) => result'.out = result.out
       /\ \A instance \in Instances, batch_kws \in BatchKws :
            (/\ result'.op = "expanded_name"
             /\ ExpandedName(instance, batch_kws)
             /\ result'.err = NoErr) =>
                result'.out = (IF batch_kws = <<>> THEN name ELSE format(name, batch_kws).s)
                              \o (IF template THEN <<"@">> ELSE <<>>)
                              \o instance \o <<".">> \o type
      ]_vars

\* the name of an instance of a batched template, the variable substituted
\* in the base and not in the instance
C15_Witness ==
    /\ result.op = "expanded_name"
    /\ result.err = NoErr
    /\ template
    /\ batched
    /\ name = <<"{", "s", "}">>
    /\ result.out = <<"1", "@", "{", "s", "}", ".">> \o type

\* the batch variables all have the same number of values and every
\* placeholder of the base name names one of them
NamesExpand ==
    /\ \E n \in 0..MaxN : AllOfLength(n)
    /\ \A f \in Placeholders(name) : haskey(batch_vars, f)

\* the file names the unit stands for: the full name, or for a batched unit
\* the base name with the i-th values substituted, for every index i
ExpectedNames ==
    IF ~batched THEN <<name \o (IF template THEN <<"@">> ELSE <<>>) \o <<".">> \o type>>
    ELSE [i \in 1..Len(batch_vars[1].v) |->
             Subst(name, i) \o (IF template THEN <<"@">> ELSE <<>>) \o <<".">> \o type]

\* the positions of the expected names that have no file
Missing == {i \in 1..Len(ExpectedNames) : ~exists(files, ExpectedNames[i])}

\* C16: remove() on a unit of whose N expanded names any subset M has no
\* file completes without raising, records exactly |M| warnings, leaves no
\* expanded name with a file, and leaves every other file untouched.
C16_PartialRemoval ==
    [][(result'.op = "remove" /\ Remove /\ (batched => NamesExpand)) =>
            /\ result'.err = NoErr
            /\ Len(result'.out) = Cardinality(Missing)
            /\ \A i \in 1..Len(ExpectedNames) : ~exists(files', ExpectedNames[i])
            /\ \A n \in DOMAIN files :
                    (\A i \in 1..Len(ExpectedNames) : ExpectedNames[i] # n) =>
                        (exists(files', n) /\ files'[n] = files[n])
      ]_vars

\* C17: for a non-batched unit, or a batched one with N >= 1 values for
\* every variable, after any sequence of write(), remove() and deletions of
\* single files, exists is true iff every expanded name has a file now, and
\* existing of a batched unit is the expanded names that have a file, in
\* expansion order; exists is true right after a successful write() and
\* false right after remove().
C17_ExistsTracksFiles ==
    [][(batched => (NamesExpand /\ batch_vars[1].v # <<>>)) =>
        /\ (result'.op = "exists" /\ Exists) =>
              /\ result'.err = NoErr
              /\ result'.out = (\A i \in 1..Len(ExpectedNames) :
                                    exists(files, ExpectedNames[i]))
              /\ (result.op = "write" /\ result.err = NoErr) => result'.out
              /\ result.op = "remove" => ~result'.out
        /\ (result'.op = "existing" /\ Existing /\ batched) =>
              /\ result'.err = NoErr
              /\ result'.out = SelectSeq(ExpectedNames, LAMBDA n : exists(files, n))
      ]_vars

\* existing of a batch of two files after the first has been deleted
C17_Witness ==
    /\ result.op = "existing"
    /\ result.err = NoErr
    /\ batched
    /\ NamesExpand
    /\ Len(ExpectedNames) = 2
    /\ ExpectedNames[1] # ExpectedNames[2]
    /\ result.out = <<ExpectedNames[2]>>
    /\ ~exists(files, ExpectedNames[1])

\* C18: add_section(name) with the name of a section of the document
\* succeeds and leaves the document as it was.
C18_AddSectionIdempotent ==
    [][\A section \in Sections :
          (/\ result'.op = "add_section"
           /\ AddSection(section)
           /\ has_section(config, section)) =>
              /\ result'.err = NoErr
              /\ config' = config
      ]_vars

\* the options of the document other than the option of the section
OtherOptions(doc, section, option) ==
    {p \in UNION {{<<doc.sections[a].name, doc.sections[a].items[b].key>> :
                      b \in 1..Len(doc.sections[a].items)} :
                  a \in 1..Len(doc.sections)} : p # <<section, option>>}

\* C19: append(section, option, v) makes an absent option [v], a scalar s
\* [s, v] and a list L the list L followed by v, marks the pair
\* multi-valued and changes no other option of the document.
C19_AppendSemantics ==
    [][\A section \in Sections, option \in Options, value \in Values :
          (/\ result'.op = "append"
           /\ AppendValue(section, option, value)
           /\ has_section(config, section)) =>
              /\ result'.err = NoErr
              /\ get(config', section, option) =
                    IF ~has_option(items(config, section), option)
                    THEN List(<<value>>)
                    ELSE IF get(config, section, option).list
                    THEN List(Append(get(config, section, option).v, value))
                    ELSE List(<<get(config, section, option).v[1], value>>)
              /\ <<section, option>> \in config'.multioptions
              /\ sections(config') = sections(config)
              /\ OtherOptions(config', section, option)
                    = OtherOptions(config, section, option)
              /\ \A p \in OtherOptions(config, section, option) :
                    get(config', p[1], p[2]) = get(config, p[1], p[2])
      ]_vars

\* C20: is_internal(name) never raises; it returns true for a section that
\* exists and is marked internal, and false for every other name, that of a
\* section that does not exist included.
C20_IsInternalTotal ==
    result.op = "is_internal" =>
        /\ result.err = NoErr
        /\ result.out[2] = (/\ has_section(config, result.out[1])
                            /\ is_internal(config, result.out[1]))

\* the expanded names of the unit for the instance of the command under way
CmdNames == expanded_names_instance(name, batch_vars, run.instance).names

\* the keys of a mapping
KeySet(its) == {its[j].key : j \in 1..Len(its)}

\* C21: a command on a batched unit with N expanded names issues N
\* invocations, one per expanded name in expansion order and each completed
\* before the next is issued, and returns stdout and stderr mappings whose
\* keys are the expanded names; on a unit that is not batched it issues one
\* invocation, for the expanded name of the unit, and returns a plain pair.
C21_ControllerCalls ==
    run.at # "idle" =>
        /\ (batched /\ NamesExpand) =>
              CmdNames = [i \in 1..Len(batch_vars[1].v) |->
                             Subst(name, i) \o (IF template THEN <<"@">> ELSE <<>>)
                             \o run.instance \o <<".">> \o type]
        /\ ~batched =>
              CmdNames = <<name \o (IF template THEN <<"@">> ELSE <<>>)
                           \o run.instance \o <<".">> \o type>>
        /\ run.inflight = (IF run.at = "awaiting" THEN 1 ELSE 0)
        /\ Len(run.calls) = run.i - 1 + run.inflight
        /\ run.calls = SubSeq(CmdNames, 1, Len(run.calls))
        /\ run.at = "done" =>
              /\ run.calls = CmdNames
              /\ result.op = run.command
              /\ result.err = NoErr
              /\ result.out.dict = batched
              /\ batched =>
                    /\ KeySet(result.out.stdout) = {CmdNames[i] : i \in 1..Len(CmdNames)}
                    /\ KeySet(result.out.stderr) = {CmdNames[i] : i \in 1..Len(CmdNames)}

\* a command on an instance of a batched template has returned after two
\* invocations for two names
C21_Witness ==
    /\ run.at = "done"
    /\ batched
    /\ template
    /\ run.instance = <<"i">>
    /\ Len(run.calls) = 2
    /\ run.calls[1] # run.calls[2]
    /\ result.out.dict
    /\ KeySet(result.out.stdout) = {run.calls[1], run.calls[2]}

\* C22: after any sequence of set, append, pop_section and add_section an
\* option is marked multi-valued iff its value is a list, so that serialize
\* emits one key line per element of a list and one key line with the whole
\* string for a scalar.
C22_MarkerConsistency ==
    \A a \in 1..Len(config.sections) :
        \A b \in 1..Len(config.sections[a].items) :
            /\ <<config.sections[a].name, config.sections[a].items[b].key>>
                   \in config.multioptions
               <=> config.sections[a].items[b].val.list
            /\ write_option(config, config.sections[a].name, config.sections[a].items[b])
                 = join([c \in 1..Len(config.sections[a].items[b].val.v) |->
                            config.sections[a].items[b].key \o <<"=">>
                            \o config.sections[a].items[b].val.v[c] \o <<NL>>], <<>>)

\* C23: iterating the batch expansion and write() on a batched unit leave
\* the unit's own document as it was, and a change of one of the documents
\* yielded changes neither another one of them nor the unit's document.
C23_ExpansionOnCopies ==
    [][/\ (result'.op \in {"write", "batched_configs"} /\ (Write \/ BatchedConfigs)) =>
            config' = config
       /\ \A i \in 1..MaxN :
            (result'.op = "change_emitted" /\ ChangeEmitted(i, Unit, key_k, <<"q">>)) =>
                /\ config' = config
                /\ Len(result'.out) = Len(result.out)
                /\ \A j \in 1..Len(result.out) : j # i => result'.out[j] = result.out[j]
      ]_vars

\* one of two documents yielded has been changed, and the unit's document
\* holds its placeholders
C23_Witness ==
    /\ result.op = "change_emitted"
    /\ Len(result.out) = 2
    /\ has_section(config, Unit)
    /\ has_section(result.out[1].config, Unit)
    /\ has_section(result.out[2].config, Unit)
    /\ has_option(items(result.out[1].config, Unit), key_k)
    /\ get(result.out[1].config, Unit, key_k) = Scalar(<<"q">>)
    /\ has_option(items(result.out[2].config, Unit), key_k)
    /\ get(result.out[2].config, Unit, key_k) # Scalar(<<"q">>)
    /\ has_option(items(config, Unit), key_k)
    /\ \E v \in {get(config, Unit, key_k).v[c] : c \in 1..Len(get(config, Unit, key_k).v)} :
           Placeholders(v) # {}

\* C24: once the file of a unit that is not batched has been written, every
\* further write() succeeds and leaves in the file the serialization of the
\* document it was called on, whatever set, append and
\* update_internal_section calls came in between; and a write() that follows
\* a successful write() directly leaves the file as it was.
C24_WriteRepeatable ==
    [][(result'.op = "write" /\ Write /\ ~batched /\ exists(files, full_name)) =>
            /\ result'.err = NoErr
            /\ exists(files', full_name)
            /\ externalise_internals(config).err = NoErr =>
                  files'[full_name] = write(externalise_internals(config).doc)
            /\ (result.op = "write" /\ result.err = NoErr) => files' = files
      ]_vars

\* the raw name up to its first ".", which the name setter splits at "@"
Stem(raw) == split(raw, ".")[1]

TerminalAt(raw) == Stem(raw) # <<>> /\ Stem(raw)[Len(Stem(raw))] = "@"

\* C25: after an assignment to the name that is accepted, the unit is a
\* template exactly when the raw name assigned has a terminal "@" and is
\* batched exactly when the base of that name holds both "{" and "}"; and an
\* assignment that is rejected leaves the base name, the type, the template
\* flag and the batched flag as they were.
C25_NameState ==
    [][\A raw \in AssignedNames :
          (result'.op = "name" /\ SetName(raw)) =>
              IF result'.err = NoErr
              THEN /\ template' = TerminalAt(raw)
                   /\ batched' = (contains(BaseOf(raw), "{") /\ contains(BaseOf(raw), "}"))
              ELSE /\ name' = name
                   /\ type' = type
                   /\ template' = template
                   /\ batched' = batched
      ]_vars

====
